---- MODULE Spec2Model ----
(***************************************************************************)
(* Model of wafer-layout.py: the die placement generator, the layout       *)
(* scorers and the offset sweep of find_optimal_layouts, together with the *)
(* input validation of the main block.                                     *)
(*                                                                         *)
(* Arithmetic.  The program computes in floating point on millimetres.     *)
(* The model computes exactly, on integers, in units of 1/Scale mm.  With  *)
(* width, height, spacing and edge exclusion entered as whole millimetres  *)
(* every quantity the program forms (half sizes, lattice periods, the      *)
(* NumSamples points of each linspace, die centres, die corners, the       *)
(* notch line at -142.5) is a whole number of units, so nothing is         *)
(* rounded.  A balance score b is held as its numerator over               *)
(* 2*effective_radius: the stored value is b * (2*effective_radius); this  *)
(* keeps the order of the scores of one run and maps 0.0 to 0.             *)
(***************************************************************************)
EXTENDS Integers, FiniteSets, Sequences, TLC

\* ----------------------------------------------------------------- bounds
\* spacing ranges over 1..MaxSpacing mm
MaxSpacing == 2
\* valid edge exclusions range over 1..MaxExclusion mm
MaxExclusion == 4

\* ------------------------------------------------------ program constants
\* radius of the wafer, mm
WaferRadius == 150
\* number of points of each np.linspace of the sweep
NumSamples == 10

\* units per millimetre: a half period divided in NumSamples - 1 steps, and
\* half sizes, are whole numbers of units
Scale == 4 * (NumSamples - 1)

ToUnits(mm) == mm * Scale

\* exclusion_bottom = -150 + 7.5
ExclusionBottom == (0 - ToUnits(WaferRadius)) + (15 * Scale) \div 2

Widths == {50, 80, 200}
Heights == {40, 70, 200, 290}
Spacings == 1..MaxSpacing
Exclusions == (1..MaxExclusion) \cup {WaferRadius, WaferRadius + 1}

VARIABLES width, height, spacing, edge_exclusion, pc, error, k, offset,
          positions, centered, best_max, best_sym, evaluated, calls, result

vars == <<width, height, spacing, edge_exclusion, pc, error, k, offset,
          positions, centered, best_max, best_sym, evaluated, calls, result>>

\* ---------------------------------------------------------------- helpers
Abs(n) == IF n < 0 THEN 0 - n ELSE n

\* math.floor(a / b) and math.ceil(a / b) for b > 0
Floor(a, b) == a \div b
Ceil(a, b) == 0 - ((0 - a) \div b)

SetMax(S) == CHOOSE m \in S : \A n \in S : n <= m
SetMin(S) == CHOOSE m \in S : \A n \in S : m <= n

\* a sign slip in the effective radius: the exclusion widens the usable disc
EffectiveRadius_Added(e) == ToUnits(WaferRadius) + ToUnits(e)

\* effective_radius = 150 - edge_exclusion, in units
EffectiveRadius(e) == ToUnits(WaferRadius) - ToUnits(e)

\* ----------------------------------------------------- generate_positions
PeriodX(w, s) == w + s \div 2
PeriodY(h, s) == h + s \div 2

IMin(dx, w, s, R) == Ceil((0 - (R - w \div 2)) - dx, PeriodX(w, s))
\* the upper x bound taken from the full width instead of the half width
IMax_FullWidth(dx, w, s, R) == Floor((R - w) - dx, PeriodX(w, s))
IMax(dx, w, s, R) == Floor((R - w \div 2) - dx, PeriodX(w, s))
JMin(dy, h, s, R) == Ceil((0 - (R - h \div 2)) - dy, PeriodY(h, s))
JMax(dy, h, s, R) == Floor((R - h \div 2) - dy, PeriodY(h, s))

\* the test of one lattice site without the bottom exclusion
IsValid_NoNotch(x, y, w, h, R) ==
    \A sx \in {-1, 1} : \A sy \in {-1, 1} :
       LET cx == x + (sx * w) \div 2
           cy == y + (sy * h) \div 2
       IN  ~(cx * cx + cy * cy > R * R)

\* the test of one lattice site: bottom exclusion, then the four corners
IsValid(x, y, w, h, R) ==
    /\ ~((y - h \div 2) < ExclusionBottom)
    /\ \A sx \in {-1, 1} : \A sy \in {-1, 1} :
          LET cx == x + (sx * w) \div 2
              cy == y + (sy * h) \div 2
          IN  ~(cx * cx + cy * cy > R * R)

\* the die centres of the lattice of offset (dx, dy); the list the program
\* returns holds each of them once (one per index pair), as this set does
generate_positions(dx, dy, w, h, s, R) ==
    { p \in { <<dx + i * PeriodX(w, s), dy + j * PeriodY(h, s)>> :
                 i \in IMin(dx, w, s, R)..IMax(dx, w, s, R),
                 j \in JMin(dy, h, s, R)..JMax(dy, h, s, R) } :
        IsValid(p[1], p[2], w, h, R) }

\* ----------------------------------------------------------- is_symmetric
\* round(v, 6) of a coordinate of n units, in millionths of a millimetre.
\* n / Scale mm is n * 250000 / 9 millionths (the whole ninths of n are
\* converted apart from the rest, to keep the products small); the remainder
\* over 9 is never a tie, and round(-v, 6) = -round(v, 6)
Round6(n) ==
    LET d == Scale \div 4
        c == 1000000 \div 4
        a == Abs(n)
        part == (a % d) * c
        q == (a \div d) * c + part \div d
        r == part % d
        m == IF 2 * r > d THEN q + 1 ELSE q
    IN  IF n < 0 THEN 0 - m ELSE m

\* the mirror test across the y axis only
is_symmetric_YAxisOnly(pos) ==
    LET pos_set == { <<Round6(p[1]), Round6(p[2])>> : p \in pos }
    IN  \A p \in pos_set : <<0 - p[1], p[2]>> \in pos_set

is_symmetric(pos) ==
    LET pos_set == { <<Round6(p[1]), Round6(p[2])>> : p \in pos }
    IN  \A p \in pos_set :
           /\ <<0 - p[1], p[2]>> \in pos_set
           /\ <<p[1], 0 - p[2]>> \in pos_set

\* ------------------------------------------------------ calculate_balance
\* the score computed from the extents max - min instead of the sums max + min
calculate_balance_Extent(pos, R) ==
    IF pos = {} THEN 0
    ELSE LET x_vals == { p[1] : p \in pos }
             y_vals == { p[2] : p \in pos }
             h_diff == Abs(SetMax(x_vals) - SetMin(x_vals))
             v_diff == Abs(SetMax(y_vals) - SetMin(y_vals))
         IN  2 * R - (h_diff + v_diff)

\* the score times 2*R (see the header)
calculate_balance(pos, R) ==
    IF pos = {} THEN 0
    ELSE LET x_vals == { p[1] : p \in pos }
             y_vals == { p[2] : p \in pos }
             h_diff == Abs(SetMax(x_vals) + SetMin(x_vals))
             v_diff == Abs(SetMax(y_vals) + SetMin(y_vals))
         IN  2 * R - (h_diff + v_diff)

\* --------------------------------------------------- find_optimal_layouts
Layout(pos, bal) == [count |-> Cardinality(pos), positions |-> pos, balance |-> bal]

EmptyLayout == [count |-> 0, positions |-> {}, balance |-> 0]

\* best_max after the centered layout has been generated
InitMax(cen, R) ==
    IF Cardinality(cen) > 0 THEN Layout(cen, calculate_balance(cen, R))
    ELSE EmptyLayout

\* the update of best_max with the comparison of the counts turned round
UpdateMax_Reversed(best, pos, R) ==
    IF Cardinality(pos) < best.count THEN Layout(pos, calculate_balance(pos, R))
    ELSE best

\* the update of best_max by one sampled offset
UpdateMax(best, pos, R) ==
    IF Cardinality(pos) > best.count THEN Layout(pos, calculate_balance(pos, R))
    ELSE best

\* the update of best_sym without the test of symmetry
UpdateSym_NoGuard(best, pos, R) ==
    LET count == Cardinality(pos)
        current_balance == calculate_balance(pos, R)
    IN  IF \/ count > best.count
           \/ (count = best.count /\ current_balance > best.balance)
        THEN Layout(pos, current_balance)
        ELSE best

\* the update of best_sym by one sampled offset
UpdateSym(best, pos, R) ==
    IF is_symmetric(pos)
    THEN LET count == Cardinality(pos)
             current_balance == calculate_balance(pos, R)
         IN  IF \/ count > best.count
                \/ (count = best.count /\ current_balance > best.balance)
             THEN Layout(pos, current_balance)
             ELSE best
    ELSE best

\* the sampled offsets in the order of the three nested loops: n counts the
\* iterations of the innermost one
NumOffsets == NumSamples * NumSamples * 4

\* np.linspace(0, stop, NumSamples)[a], stop being half a period
Linspace(stop, a) == (a * stop) \div (NumSamples - 1)

OffsetAt(n, w, h, s) ==
    LET dx == Linspace(PeriodX(w, s) \div 2, n \div (NumSamples * 4))
        dy == Linspace(PeriodY(h, s) \div 2, (n \div 4) % NumSamples)
        q  == n % 4
    IN  CASE q = 0 -> <<dx, dy>>
          [] q = 1 -> <<0 - dx, dy>>
          [] q = 2 -> <<dx, 0 - dy>>
          [] q = 3 -> <<0 - dx, 0 - dy>>

PositionsAt(n, w, h, s, R) ==
    generate_positions(OffsetAt(n, w, h, s)[1], OffsetAt(n, w, h, s)[2], w, h, s, R)

\* ------------------------------------------------------------ main block
\* the checks before the search, with strict comparison of the radius
validation_error_Strict(w, h, R) ==
    IF R < 0 THEN "Edge exclusion exceeds wafer radius"
    ELSE IF (w \div 2) * (w \div 2) + (h \div 2) * (h \div 2) > R * R
         THEN "Die too large for effective area"
         ELSE "none"

\* the checks before the search: the message of st.error, "none" when both pass
validation_error(w, h, R) ==
    IF R <= 0 THEN "Edge exclusion exceeds wafer radius"
    ELSE IF (w \div 2) * (w \div 2) + (h \div 2) * (h \div 2) > R * R
         THEN "Die too large for effective area"
         ELSE "none"

\* ------------------------------------------------------------- the program
Init ==
    /\ width \in Widths
    /\ height \in Heights
    /\ spacing \in Spacings
    /\ edge_exclusion \in Exclusions
    /\ pc = "start"
    /\ error = "none"
    /\ k = 0
    /\ offset = <<0, 0>>
    /\ positions = {}
    /\ centered = {}
    /\ best_max = EmptyLayout
    /\ best_sym = EmptyLayout
    /\ evaluated = {}
    /\ calls = 0
    /\ result = <<>>

width_u == ToUnits(width)
height_u == ToUnits(height)
spacing_u == ToUnits(spacing)
effective_radius == EffectiveRadius(edge_exclusion)

\* the main block up to the call of find_optimal_layouts: st.stop() ends the
\* run after an error
Validate ==
    /\ pc = "start"
    /\ error' = validation_error(width_u, height_u, effective_radius)
    /\ pc' = IF error' = "none" THEN "centered" ELSE "stopped"
    /\ UNCHANGED <<width, height, spacing, edge_exclusion, k, offset, positions,
                   centered, best_max, best_sym, evaluated, calls, result>>

\* find_optimal_layouts up to the loops: the centered layout
CenteredLayout ==
    /\ pc = "centered"
    /\ LET cen == generate_positions(0, 0, width_u, height_u, spacing_u, effective_radius)
       IN  /\ centered' = cen
           /\ positions' = cen
           /\ best_max' = InitMax(cen, effective_radius)
           /\ evaluated' = { [count |-> Cardinality(cen),
                              balance |-> calculate_balance(cen, effective_radius),
                              sampled |-> FALSE,
                              symmetric |-> is_symmetric(cen)] }
    /\ offset' = <<0, 0>>
    /\ calls' = calls + 1
    /\ pc' = "sweep"
    /\ UNCHANGED <<width, height, spacing, edge_exclusion, error, k, best_sym, result>>

\* one iteration of the innermost loop of the sweep
SweepStep ==
    /\ pc = "sweep"
    /\ k < NumOffsets
    /\ LET pos == PositionsAt(k, width_u, height_u, spacing_u, effective_radius)
       IN  /\ positions' = pos
           /\ best_max' = UpdateMax(best_max, pos, effective_radius)
           /\ best_sym' = UpdateSym(best_sym, pos, effective_radius)
           /\ evaluated' = evaluated \cup
                 { [count |-> Cardinality(pos),
                    balance |-> calculate_balance(pos, effective_radius),
                    sampled |-> TRUE,
                    symmetric |-> is_symmetric(pos)] }
    /\ offset' = OffsetAt(k, width_u, height_u, spacing_u)
    /\ calls' = calls + 1
    /\ k' = k + 1
    /\ UNCHANGED <<width, height, spacing, edge_exclusion, pc, error, centered, result>>

\* the return of find_optimal_layouts
Return ==
    /\ pc = "sweep"
    /\ k = NumOffsets
    /\ result' = <<best_max, best_sym, Layout(centered, calculate_balance(centered, effective_radius))>>
    /\ pc' = "done"
    /\ UNCHANGED <<width, height, spacing, edge_exclusion, error, k, offset, positions,
                   centered, best_max, best_sym, evaluated, calls>>

Next == Validate \/ CenteredLayout \/ SweepStep \/ Return

Spec == Init /\ [][Next]_vars

TypeOK ==
    /\ pc \in {"start", "stopped", "centered", "sweep", "done"}
    /\ k \in 0..NumOffsets
    /\ best_max.count = Cardinality(best_max.positions)
    /\ best_sym.count = Cardinality(best_sym.positions)

\* ------------------------------------------- find_optimal_layouts, as a whole
\* best_max after the sampled offsets lo, lo + 1, ..., hi - 1 have updated
\* best, in this order (the range is split in two to keep the nesting low)
RECURSIVE SweepMax(_, _, _, _, _, _, _)
SweepMax(best, lo, hi, w, h, s, R) ==
    IF hi <= lo THEN best
    ELSE IF hi = lo + 1 THEN UpdateMax(best, PositionsAt(lo, w, h, s, R), R)
    ELSE LET mid == (lo + hi) \div 2
             first == SweepMax(best, lo, mid, w, h, s, R)
         IN  \* the test makes TLC evaluate the first half before the second
             IF first.count >= 0 THEN SweepMax(first, mid, hi, w, h, s, R) ELSE first

\* the max-count layout find_optimal_layouts returns
find_optimal_max(w, h, s, R) ==
    SweepMax(InitMax(generate_positions(0, 0, w, h, s, R), R), 0, NumOffsets, w, h, s, R)

\* the count of the max-count layout find_optimal_layouts returns
MaxCount(w, h, s, R) == find_optimal_max(w, h, s, R).count

\* ================================================================== claims
\* the stepwise sweep returns what find_optimal_max computes
SweepAgrees == pc = "done" => result[1] = find_optimal_max(width_u, height_u, spacing_u, effective_radius)

Searching == pc \in {"sweep", "done"}

\* the half sizes of the die of this run
HalfW == width_u \div 2
HalfH == height_u \div 2

\* the validity predicate of the specification, on a die centre: the four
\* corners lie in the circle of the effective radius and the lower edge is
\* not below the notch line
FitsWithinCircle(p) ==
    \A cx \in {p[1] - HalfW, p[1] + HalfW} : \A cy \in {p[2] - HalfH, p[2] + HalfH} :
        cx * cx + cy * cy <= effective_radius * effective_radius

ViolatesNotch(p) == p[2] - HalfH < ExclusionBottom

\* ----------------------------------------------------------------------- C1
\* C1: the layouts find_optimal_layouts returns satisfy
\* max-count.count >= centered.count and max-count.count >= symmetric.count.
C1_MaxDominates ==
    pc = "done" =>
        /\ result[1].count >= result[3].count
        /\ result[1].count >= result[2].count

\* a run returned a max-count layout strictly larger than both the centered
\* and the (non-empty) symmetric one
C1_Witness ==
    /\ pc = "done"
    /\ result[2].count > 0
    /\ result[1].count > result[2].count
    /\ result[1].count > result[3].count

\* ----------------------------------------------------------------------- C2
\* C2: every position of the set generate_positions returned last, and of the
\* max-count, symmetric and centered layouts, has its four corners inside the
\* circle of the effective radius and its lower edge not below y = -142.5.
C2_PositionsValid ==
    \A p \in positions \cup centered \cup best_max.positions \cup best_sym.positions :
        FitsWithinCircle(p) /\ ~ViolatesNotch(p)

\* a non-empty set was generated from a lattice one of whose sites lies in
\* the circle and was left out because of the notch alone
C2_Witness ==
    /\ pc = "sweep"
    /\ positions # {}
    /\ \E j \in JMin(offset[2], height_u, spacing_u, effective_radius)..
                JMax(offset[2], height_u, spacing_u, effective_radius) :
       \E i \in IMin(offset[1], width_u, spacing_u, effective_radius)..
                IMax(offset[1], width_u, spacing_u, effective_radius) :
          LET p == <<offset[1] + i * PeriodX(width_u, spacing_u),
                     offset[2] + j * PeriodY(height_u, spacing_u)>>
          IN  FitsWithinCircle(p) /\ ViolatesNotch(p)

\* ----------------------------------------------------------------------- C3
\* C3: the symmetric layout, whenever its count > 0, passes is_symmetric when
\* re-evaluated: each of its positions has both mirror images in it.
C3_SymmetricIsSymmetric ==
    best_sym.count > 0 =>
        /\ is_symmetric(best_sym.positions)
        /\ \A p \in best_sym.positions :
              /\ <<0 - p[1], p[2]>> \in best_sym.positions
              /\ <<p[1], 0 - p[2]>> \in best_sym.positions

\* the sweep holds a non-empty symmetric layout and has just passed over a
\* larger set that is mirrored across the y axis only
C3_Witness ==
    /\ pc = "sweep"
    /\ best_sym.count > 0
    /\ Cardinality(positions) > best_sym.count
    /\ \A p \in positions : <<0 - p[1], p[2]>> \in positions
    /\ \E p \in positions : <<p[1], 0 - p[2]>> \notin positions

\* ----------------------------------------------------------------------- C4
\* C4: after each step of the sweep the running max-count layout has the
\* highest count among the offsets evaluated so far, and among those reaching
\* that count one with the highest balance.
C4_RunningMaxTieBreak ==
    Searching =>
        /\ \A r \in evaluated : r.count <= best_max.count
        /\ \A r \in evaluated : r.count = best_max.count => r.balance <= best_max.balance

\* ----------------------------------------------------------------------- C5
SymmetricSampled == { r \in evaluated : r.sampled /\ r.symmetric }

\* C5: after each step of the sweep the running symmetric layout has the
\* highest count among the sampled offsets evaluated so far whose set is
\* symmetric, ties broken by higher balance; while no sampled offset gave a
\* non-empty symmetric set it is the empty layout with count 0.
C5_RunningSymmetric ==
    Searching =>
        /\ \A r \in SymmetricSampled : r.count <= best_sym.count
        /\ \A r \in SymmetricSampled :
              r.count = best_sym.count => r.balance <= best_sym.balance
        /\ best_sym.count > 0 =>
              \E r \in SymmetricSampled :
                 r.count = best_sym.count /\ r.balance = best_sym.balance
        /\ (\A r \in SymmetricSampled : r.count = 0) => best_sym = EmptyLayout

\* the sweep holds a non-empty symmetric layout and has passed over a larger
\* set that is not symmetric
C5_Witness ==
    /\ pc = "sweep"
    /\ best_sym.count > 0
    /\ \E r \in evaluated : r.sampled /\ ~r.symmetric /\ r.count > best_sym.count

\* ----------------------------------------------------------------------- C6
DieTooLarge == HalfW * HalfW + HalfH * HalfH > effective_radius * effective_radius

NothingSearched ==
    /\ pc = "stopped"
    /\ calls = 0
    /\ result = <<>>
    /\ positions = {}
    /\ best_max = EmptyLayout
    /\ best_sym = EmptyLayout

\* C6: validation runs before any search.  If effective_radius <= 0 the run
\* ends with the InvalidExclusion error; otherwise if the half diagonal of the
\* die exceeds the effective radius it ends with the DieTooLarge error; in
\* both cases generate_positions is never called and no layout is produced.
\* A search runs only on inputs that pass both checks.
C6_ValidationFirst ==
    pc # "start" =>
        /\ effective_radius <= 0 =>
              NothingSearched /\ error = "Edge exclusion exceeds wafer radius"
        /\ (effective_radius > 0 /\ DieTooLarge) =>
              NothingSearched /\ error = "Die too large for effective area"
        /\ calls > 0 => (effective_radius > 0 /\ ~DieTooLarge /\ error = "none")

\* a run with a positive effective radius stopped on the DieTooLarge error
C6_Witness ==
    /\ pc = "stopped"
    /\ effective_radius > 0
    /\ error = "Die too large for effective area"

\* ----------------------------------------------------------------------- C7
\* C7: for fixed width, height and spacing and valid edge exclusions
\* e1 <= e2, the max-count layout computed with e2 has no more dies than the
\* one computed with e1.
C7_MonotoneInExclusion ==
    pc = "done" =>
        \A e1 \in Exclusions :
            e1 <= edge_exclusion =>
                result[1].count <= MaxCount(width_u, height_u, spacing_u, EffectiveRadius(e1))

\* a run returned strictly fewer dies than the run with a smaller exclusion
C7_Witness ==
    /\ pc = "done"
    /\ result[1].count > 0
    /\ \E e1 \in Exclusions :
          /\ e1 < edge_exclusion
          /\ result[1].count < MaxCount(width_u, height_u, spacing_u, EffectiveRadius(e1))

\* ----------------------------------------------------------------------- C8
\* the extrema of the coordinates of a position set, 0 when it is empty
ExtMaxX(pos) == IF pos = {} THEN 0 ELSE CHOOSE x \in {p[1] : p \in pos} : \A q \in pos : q[1] <= x
ExtMinX(pos) == IF pos = {} THEN 0 ELSE CHOOSE x \in {p[1] : p \in pos} : \A q \in pos : q[1] >= x
ExtMaxY(pos) == IF pos = {} THEN 0 ELSE CHOOSE y \in {p[2] : p \in pos} : \A q \in pos : q[2] <= y
ExtMinY(pos) == IF pos = {} THEN 0 ELSE CHOOSE y \in {p[2] : p \in pos} : \A q \in pos : q[2] >= y

\* 1 - (|maxX+minX| + |maxY+minY|) / (2 R), times 2 R
BalanceFormula(pos) ==
    2 * effective_radius
       - (Abs(ExtMaxX(pos) + ExtMinX(pos)) + Abs(ExtMaxY(pos) + ExtMinY(pos)))

SymmetricAboutOrigin(pos) ==
    \A p \in pos : <<0 - p[1], p[2]>> \in pos /\ <<p[1], 0 - p[2]>> \in pos

\* the position sets calculate_balance has been applied to, each with the
\* score it returned: the set of the last sampled offset when it is symmetric
\* (current_balance), the sets kept in best_max and best_sym, and the
\* centered set on return
Scored ==
    (IF k > 0 /\ is_symmetric(positions)
     THEN {<<positions, calculate_balance(positions, effective_radius)>>} ELSE {})
      \cup (IF best_max.count > 0 THEN {<<best_max.positions, best_max.balance>>} ELSE {})
      \cup (IF best_sym.count > 0 THEN {<<best_sym.positions, best_sym.balance>>} ELSE {})
      \cup (IF pc = "done" THEN {<<result[3].positions, result[3].balance>>} ELSE {})

\* C8 as stated: calculate_balance gives 1 - (|maxX+minX| + |maxY+minY|) / (2 R)
\* for every position set, the extrema being 0 for the empty set; so every
\* set symmetric about the origin, the empty one included, scores exactly 1.
C8_BalanceFormulaAlways ==
    Searching =>
        \A sc \in Scored :
            /\ sc[2] = BalanceFormula(sc[1])
            /\ SymmetricAboutOrigin(sc[1]) => sc[2] = 2 * effective_radius

\* C8 amended: calculate_balance gives 1 - (|maxX+minX| + |maxY+minY|) / (2 R)
\* for every non-empty position set, so every non-empty set symmetric about
\* the origin scores exactly 1; the empty set scores 0.
C8_BalanceFormulaNonEmpty ==
    Searching =>
        \A sc \in Scored :
            /\ sc[1] # {} => sc[2] = BalanceFormula(sc[1])
            /\ (sc[1] # {} /\ SymmetricAboutOrigin(sc[1])) => sc[2] = 2 * effective_radius
            /\ sc[1] = {} => sc[2] = 0

\* the sweep has just scored an empty set, holds a symmetric non-empty set
\* with score 1 and has seen a non-empty set that is off centre
C8_Witness ==
    /\ pc = "sweep"
    /\ k > 0
    /\ positions = {}
    /\ best_sym.count > 0
    /\ best_sym.balance = 2 * effective_radius
    /\ \E r \in evaluated : r.count > 0 /\ r.balance < 2 * effective_radius

\* ----------------------------------------------------------------------- C9
\* C9: any two distinct positions of a set generate_positions returns are
\* separated by at least the scribe spacing: |x1 - x2| >= width + spacing or
\* |y1 - y2| >= height + spacing.
C9_ScribeGap ==
    \A p \in positions : \A q \in positions :
        p # q => \/ Abs(p[1] - q[1]) >= width_u + spacing_u
                 \/ Abs(p[2] - q[2]) >= height_u + spacing_u

\* ---------------------------------------------------------------------- C10
\* a range of lattice indices that holds every index whose site can lie in
\* the circle, whatever the offset of the sweep
LooseI == LET n == effective_radius \div PeriodX(width_u, spacing_u) + 2 IN (0 - n)..n
LooseJ == LET n == effective_radius \div PeriodY(height_u, spacing_u) + 2 IN (0 - n)..n

\* C10: the index bounds of generate_positions leave out no valid site: the
\* set returned equals the sites of a looser range of indices that pass the
\* validity test.
C10_BoundsAreOptimization ==
    Searching =>
        positions =
            { p \in { <<offset[1] + i * PeriodX(width_u, spacing_u),
                        offset[2] + j * PeriodY(height_u, spacing_u)>> :
                         i \in LooseI, j \in LooseJ } :
                FitsWithinCircle(p) /\ ~ViolatesNotch(p) }

\* a set was generated that uses the last index of the x range and of the y
\* range, while sites inside the ranges were rejected
C10_Witness ==
    /\ pc = "sweep"
    /\ \E p \in positions :
          p[1] = offset[1] + IMax(offset[1], width_u, spacing_u, effective_radius)
                                * PeriodX(width_u, spacing_u)
    /\ \E p \in positions :
          p[2] = offset[2] + JMax(offset[2], height_u, spacing_u, effective_radius)
                                * PeriodY(height_u, spacing_u)
    /\ Cardinality(positions) <
          (IMax(offset[1], width_u, spacing_u, effective_radius)
             - IMin(offset[1], width_u, spacing_u, effective_radius) + 1)
        * (JMax(offset[2], height_u, spacing_u, effective_radius)
             - JMin(offset[2], height_u, spacing_u, effective_radius) + 1)
====
